---- MODULE Spec2Model ----
(***************************************************************************)
(* Student-records API (NestJS + TypeORM + PostgreSQL).                    *)
(*                                                                         *)
(* Two specifications share this module:                                   *)
(*   Spec      StudentsService (create, findOne, transactional update,     *)
(*             remove) and the seed route over the student and grade       *)
(*             tables, two concurrent request handlers.                    *)
(*   SpecAuth  AuthService (register / login), JwtStrategy.validate and    *)
(*             UserRoleGuard over the user table, with a clock and two     *)
(*             requests in flight.                                         *)
(*                                                                         *)
(* Text values are sequences of one-character strings so that the string   *)
(* conversions of the code (toLowerCase, replace, trim, number-to-string)  *)
(* are computed, not assumed.                                              *)
(***************************************************************************)
EXTENDS Integers, Sequences, FiniteSets, Bags, TLC

(***************************************************************************)
(* Bounds of the model.                                                    *)
(***************************************************************************)
\* number of StudentsService calls started in one behaviour (each create of
\* a seed run counts)
MaxOps == 3
\* number of AuthService / guard requests in one behaviour
MaxReqs == 3
\* number of clock advances in one behaviour
MaxTicks == 1

\* concurrent request handlers of StudentsService
Procs == {1, 2}

\* concurrent request handlers of the auth routes
Handlers == {1, 2}

(***************************************************************************)
(* JavaScript string helpers.                                              *)
(***************************************************************************)
\* String.prototype.toLowerCase on one character
LowerChar(c) ==
  CASE c = "A" -> "a"
    [] c = "B" -> "b"
    [] c = "J" -> "j"
    [] c = "P" -> "p"
    [] c = "Q" -> "q"
    [] c = "X" -> "x"
    [] OTHER -> c

\* String.prototype.toLowerCase
toLowerCase(s) == [i \in 1..Len(s) |-> LowerChar(s[i])]

\* String.prototype.toUpperCase (and SQL UPPER) on one character
UpperChar(c) ==
  CASE c = "a" -> "A"
    [] c = "b" -> "B"
    [] c = "j" -> "J"
    [] c = "p" -> "P"
    [] c = "q" -> "Q"
    [] c = "x" -> "X"
    [] OTHER -> c

\* String.prototype.toUpperCase
toUpperCase(s) == [i \in 1..Len(s) |-> UpperChar(s[i])]

\* index of the first occurrence of character c in s, 0 when there is none
RECURSIVE IndexFrom(_, _, _)
IndexFrom(s, c, i) ==
  IF i > Len(s) THEN 0
  ELSE IF s[i] = c THEN i
  ELSE IndexFrom(s, c, i + 1)

\* String.prototype.replace(from, to) with a string pattern: the FIRST
\* occurrence only
replace(s, from, to) ==
  LET k == IndexFrom(s, from, 1)
  IN IF k = 0 THEN s ELSE [i \in 1..Len(s) |-> IF i = k THEN to ELSE s[i]]

\* String.prototype.trim: strip leading and trailing blanks
RECURSIVE trimStart(_)
trimStart(s) ==
  IF s # << >> /\ Head(s) = " " THEN trimStart(Tail(s)) ELSE s

RECURSIVE trimEnd(_)
trimEnd(s) ==
  IF s # << >> /\ s[Len(s)] = " " THEN trimEnd(SubSeq(s, 1, Len(s) - 1)) ELSE s

trim(s) == trimEnd(trimStart(s))

DigitChar(d) ==
  CASE d = 0 -> "0" [] d = 1 -> "1" [] d = 2 -> "2" [] d = 3 -> "3"
    [] d = 4 -> "4" [] d = 5 -> "5" [] d = 6 -> "6" [] d = 7 -> "7"
    [] d = 8 -> "8" [] d = 9 -> "9"

\* Number.prototype.toString for a non-negative integer
RECURSIVE NumberToString(_)
NumberToString(n) ==
  IF n < 10 THEN <<DigitChar(n)>>
  ELSE NumberToString(n \div 10) \o <<DigitChar(n % 10)>>

\* an optional number that was never set (JavaScript undefined) and one read
\* back from a NULL column (JavaScript null); real ages are positive
Undefined == -1
Null == -2

\* what `string + value` appends for a number, undefined or null
ToStr(v) ==
  IF v = Undefined THEN <<"u", "n", "d", "e", "f", "i", "n", "e", "d">>
  ELSE IF v = Null THEN <<"n", "u", "l", "l">>
  ELSE NumberToString(v)

(***************************************************************************)
(* Student entity: lifecycle hooks.                                        *)
(***************************************************************************)
\* Student.checkNicknameInsert (@BeforeInsert); an unset nickname is the
\* empty text (`!this.nickname` holds for both)
checkNicknameInsert(nickname, name, age) ==
  LET base == IF nickname = << >> THEN name ELSE nickname
  IN replace(toLowerCase(base), " ", "_") \o ToStr(age)

\* Student.checkNicknameUpdate (@BeforeUpdate)
checkNicknameUpdate(nickname, name, age) ==
  replace(toLowerCase(nickname), " ", "_") \o ToStr(age)

\* a column read back from PostgreSQL: an unset nullable column is NULL
FromDb(v) == IF v = Undefined THEN Null ELSE v

\* grade.grade is declared `@Column('text')`: a number is stored and read
\* back as its text
Num(n) == <<"number", n>>
ToText(v) == <<"text", v[2]>>

(***************************************************************************)
(* Inputs (already validated DTOs).                                        *)
(***************************************************************************)
Has(dto, f) == f \in DOMAIN dto

GMath == [subject |-> "Math", grade |-> Num(45)]
GScience == [subject |-> "Science", grade |-> Num(40)]
GArt == [subject |-> "Art", grade |-> Num(35)]

CreateStudentDtos ==
  { [name |-> <<"J", " ", "P">>, age |-> 20, email |-> "e1", gender |-> "Male",
     grades |-> <<GMath>>],
    [name |-> <<"A">>, email |-> "e2", gender |-> "Female"],
    [name |-> <<"A", " ", "B", " ", "Q">>, age |-> 19, email |-> "e2",
     gender |-> "Other"] }

UpdateStudentDtos ==
  { [age |-> 21],
    [age |-> 20],
    [name |-> <<"J", " ", "Q">>],
    [grades |-> <<GScience, GArt>>],
    [grades |-> << >>],
    [email |-> "e2", grades |-> <<GArt>>] }

\* a route parameter (:id, :term): the text of a UUID, numbered here, or
\* some other text
Uuid(n) == [isUUID |-> TRUE, id |-> n, text |-> << >>]
Text(s) == [isUUID |-> FALSE, id |-> 0, text |-> s]

\* class-validator isUUID(term)
isUUID(term) == term.isUUID

NoTerm == Text(<< >>)

\* the route parameters tried: the ids generated so far, one id that is
\* not stored, and a text that is no UUID (the name of the second student
\* of CreateStudentDtos in lower case)
Terms == {Uuid(n) : n \in 1..MaxOps} \cup {Text(<<"a">>)}

\* the Authorization header of a request that carries no bearer token
NoToken ==
  [payload |-> [id |-> 0, email |-> << >>, iat |-> 0, exp |-> 0],
   signature |-> <<"none">>]

(***************************************************************************)
(* State.                                                                  *)
(***************************************************************************)
VARIABLES
  students,     \* table student: id -> [name, age, email, nickname, gender]
  grades,       \* table grade: set of [id, student, subject, grade]
  nextStudent,  \* next generated student id (ids are UUIDs; numbered here)
  nextGrade,    \* next generated grade id
  nops,         \* StudentsService calls started so far (a seed: its creates)
  pc,           \* per handler: the await it is suspended at, or "idle"
  arg,          \* per handler: its current or last call (op, term, id, dto, token)
  ent,          \* per handler: the in-memory Student entity of update
  scan,         \* per handler: grade ids the running DELETE statement found
  caught,       \* per handler: code of the error caught by update
  qr,           \* per handler: state of the query runner
  tx,           \* per handler: uncommitted writes of its transaction
  plan,         \* per handler: the statements save() has decided to run
  insertPromises, \* per handler: the promises of its last runSeed
  ret,          \* per handler: outcome of its last call
  before,       \* history: the student's durable rows when update was called
  dirty         \* history: another call committed on that student meanwhile

studentVars ==
  <<students, grades, nextStudent, nextGrade, nops, pc, arg, ent, scan,
    caught, qr, tx, plan, insertPromises, ret, before, dirty>>

(***************************************************************************)
(* Auth: state.                                                            *)
(***************************************************************************)
VARIABLES
  accounts,   \* table user: id -> [id, email, fullName, password, isActive, roles]
  nextUser,   \* next generated user id
  now,        \* the clock, in seconds
  ticks,      \* clock advances so far
  nreq,       \* requests answered so far
  pending,    \* bag of the requests that are suspended at an await
  req,        \* the last request
  resp,       \* its outcome
  issued,     \* history: every token issued, with its account and time
  accepted    \* history: tokens JwtStrategy.validate has accepted

authVars ==
  <<accounts, nextUser, now, ticks, nreq, pending, req, resp, issued, accepted>>

Cols == {"name", "age", "email", "nickname", "gender"}

NoDto == << >>
NoArg == [op |-> "none", term |-> NoTerm, id |-> 0, dto |-> NoDto, token |-> NoToken]
NoEnt == [id |-> 0]
NoTx == [active |-> FALSE, del |-> {}, ins |-> {}, nul |-> {}, stu |-> << >>]
NoSnap == [present |-> FALSE, grades |-> {}]
NoPlan == [insert |-> FALSE, set |-> << >>, ins |-> << >>, nul |-> {}]

\* outcomes of a call
Pending == [status |-> "pending"]
NoCall == [status |-> "none"]
NotFound == [status |-> "NotFound"]
\* the call returned normally without a value
ReturnedUndefined == [status |-> "undefined"]
\* an error that left the method as it was raised
Thrown(step) == [status |-> "error", step |-> step]
Ok(op, id, row, gs) ==
  [status |-> "ok", op |-> op, id |-> id, row |-> row, grades |-> gs]

\* rows of table grade that reference student sid
GradesOf(G, sid) == {g \in G : g.student = sid}

\* a set of grade rows as the array a query returns (ordered by id here)
RECURSIVE RowsToArray(_)
RowsToArray(G) ==
  IF G = {} THEN << >>
  ELSE LET m == CHOOSE g \in G : \A h \in G : g.id <= h.id
       IN <<[id |-> m.id, subject |-> m.subject, grade |-> m.grade]>>
            \o RowsToArray(G \ {m})

\* gradeRepository.create(grade) for each element of the DTO: entities with
\* no id yet (0)
GradeEntities(gs) ==
  [i \in 1..Len(gs) |-> [id |-> 0, subject |-> gs[i].subject, grade |-> gs[i].grade]]

\* an update that forgets to attach the new grades to the entity
KeepGrades(e, gs) == e

\* student.grade = grades.map(grade => this.gradeRepository.create(grade))
ReplaceGrades(e, gs) == [e EXCEPT !.grade = GradeEntities(gs)]

\* the durable rows of one student
Snapshot(id) ==
  IF id \in DOMAIN students
  THEN [present |-> TRUE, row |-> students[id], grades |-> GradesOf(grades, id)]
  ELSE NoSnap

(***************************************************************************)
(* StudentsService.handleException: only a unique violation is rethrown.   *)
(***************************************************************************)
handleException(code) ==
  IF code = "23505"
  THEN [status |-> "InternalServerError", code |-> code]
  ELSE ReturnedUndefined

InitStudents ==
  /\ students = << >>
  /\ grades = {}
  /\ nextStudent = 1
  /\ nextGrade = 1
  /\ nops = 0
  /\ pc = [p \in Procs |-> "idle"]
  /\ arg = [p \in Procs |-> NoArg]
  /\ ent = [p \in Procs |-> NoEnt]
  /\ scan = [p \in Procs |-> {}]
  /\ caught = [p \in Procs |-> "none"]
  /\ qr = [p \in Procs |-> "none"]
  /\ tx = [p \in Procs |-> NoTx]
  /\ plan = [p \in Procs |-> NoPlan]
  /\ insertPromises = [p \in Procs |-> << >>]
  /\ ret = [p \in Procs |-> NoCall]
  /\ before = [p \in Procs |-> NoSnap]
  /\ dirty = [p \in Procs |-> FALSE]

(***************************************************************************)
(* StudentsService.create: one save, which TypeORM runs as one             *)
(* transaction (student row, then its grade rows by cascade).              *)
(***************************************************************************)
\* the row and grade rows that save() inserts for a create DTO
NewStudentRow(dto) ==
  LET age == IF Has(dto, "age") THEN dto.age ELSE Undefined
  IN [name |-> dto.name, age |-> FromDb(age), email |-> dto.email,
      nickname |-> checkNicknameInsert(<< >>, dto.name, age),
      gender |-> dto.gender]

\* a save that writes the student row and leaves its grades out
NoGradeRows(gs, sid, first) == {}

\* the grade rows the cascade inserts with the student: one per element of
\* the DTO's grades, each referencing the student
NewGradeRows(gs, sid, first) ==
  {[id |-> first + i - 1, student |-> sid, subject |-> gs[i].subject,
    grade |-> ToText(gs[i].grade)] : i \in 1..Len(gs)}

Put(f, k, v) == [x \in DOMAIN f \cup {k} |-> IF x = k THEN v ELSE f[x]]

EmailTaken(email, except) ==
  \E i \in DOMAIN students : i # except /\ students[i].email = email

\* the unique index on email also holds the rows other open transactions
\* have written: a statement that writes this email waits for a
\* transaction that inserted or updated a student whose stored or new
\* email it is, and is judged once that transaction has ended
EmailHeldByOther(p, email) ==
  \E q \in Procs \ {p} :
    /\ tx[q].active
    /\ tx[q].stu # << >>
    /\ \/ "email" \in DOMAIN tx[q].stu[1].set /\ tx[q].stu[1].set.email = email
       \/ arg[q].id \in DOMAIN students /\ students[arg[q].id].email = email

\* the object create returns: the entity built from the DTO, as it is in
\* memory after save (generated id, nickname set by the hook, an omitted
\* age still undefined)
CreatedEntity(dto) ==
  [NewStudentRow(dto) EXCEPT
     !.age = IF Has(dto, "age") THEN dto.age ELSE Undefined]

\* ... and its grade entities: the DTO's values with the generated ids
CreatedGrades(gs, first) ==
  {[id |-> first + i - 1, subject |-> gs[i].subject, grade |-> gs[i].grade] :
     i \in 1..Len(gs)}

Create(p, dto) ==
  /\ pc[p] = "idle"
  /\ nops < MaxOps
  /\ nops' = nops + 1
  /\ LET gs == IF Has(dto, "grades") THEN dto.grades ELSE << >>
         row == NewStudentRow(dto)
         rows == NewGradeRows(gs, nextStudent, nextGrade)
     IN \E dbError \in BOOLEAN :
          IF dbError
          THEN /\ ret' = [ret EXCEPT ![p] = handleException("other")]
               /\ UNCHANGED <<students, grades, nextStudent, nextGrade>>
          ELSE /\ ~EmailHeldByOther(p, dto.email)
               /\ IF EmailTaken(dto.email, 0)
                  THEN /\ ret' = [ret EXCEPT ![p] = handleException("23505")]
                       /\ UNCHANGED <<students, grades, nextStudent, nextGrade>>
                  ELSE /\ students' = Put(students, nextStudent, row)
                       /\ grades' = grades \cup rows
                       /\ nextStudent' = nextStudent + 1
                       /\ nextGrade' = nextGrade + Len(gs)
                       /\ ret' = [ret EXCEPT ![p] =
                                    Ok("create", nextStudent, CreatedEntity(dto),
                                       CreatedGrades(gs, nextGrade))]
  /\ qr' = [qr EXCEPT ![p] = "none"]
  /\ before' = [before EXCEPT ![p] = NoSnap]
  /\ dirty' = [dirty EXCEPT ![p] = FALSE]
  /\ arg' = [arg EXCEPT ![p] = [NoArg EXCEPT !.op = "create"]]
  /\ UNCHANGED <<pc, ent, scan, caught, tx>>
  /\ UNCHANGED <<plan, insertPromises>>
  /\ UNCHANGED authVars

(***************************************************************************)
(* StudentsService.update, one action per await.                           *)
(***************************************************************************)
\* a preload that resets an omitted gender instead of keeping the stored one
PreloadResetting(row, dto) ==
  [c \in Cols |-> IF Has(dto, c) THEN dto[c]
                  ELSE IF c = "gender" THEN "Other" ELSE row[c]]

\* studentRepository.preload({id, ...studentDetails}): the stored row with
\* the DTO's fields laid over it
Preload(row, dto) == [c \in Cols |-> IF Has(dto, c) THEN dto[c] ELSE row[c]]

\* leave update: forget the handler's locals
Exit(p, outcome) ==
  /\ pc' = [pc EXCEPT ![p] = "idle"]
  /\ ret' = [ret EXCEPT ![p] = outcome]
  /\ ent' = [ent EXCEPT ![p] = NoEnt]
  /\ scan' = [scan EXCEPT ![p] = {}]
  /\ caught' = [caught EXCEPT ![p] = "none"]

\* enter the catch block with the error's code
Catch(p, code) ==
  /\ pc' = [pc EXCEPT ![p] = "rollback"]
  /\ caught' = [caught EXCEPT ![p] = code]

\* preload, NotFound check, createQueryRunner, call of connect; the route
\* passes :id as it came (no ParseUUIDPipe), and the uuid column rejects a
\* text that is no UUID (error 22P02) in the query of preload
\* (the DTO is kept only by a call that gets past the NotFound check)
UpdateBegin(p, term, dto) ==
  /\ pc[p] = "idle"
  /\ term.id <= nextStudent
  /\ nops < MaxOps
  /\ nops' = nops + 1
  /\ before' = [before EXCEPT ![p] = Snapshot(term.id)]
  /\ dirty' = [dirty EXCEPT ![p] = FALSE]
  /\ arg' = [arg EXCEPT ![p] =
               [NoArg EXCEPT !.op = "update", !.term = term, !.id = term.id,
                             !.dto = IF term.id \in DOMAIN students
                                     THEN dto ELSE NoDto]]
  /\ IF ~isUUID(term)
     THEN /\ ret' = [ret EXCEPT ![p] = Thrown("preload")]
          /\ qr' = [qr EXCEPT ![p] = "none"]
          /\ UNCHANGED <<pc, ent>>
     ELSE IF term.id \notin DOMAIN students
     THEN /\ ret' = [ret EXCEPT ![p] = NotFound]
          /\ qr' = [qr EXCEPT ![p] = "none"]
          /\ UNCHANGED <<pc, ent>>
     ELSE /\ ret' = [ret EXCEPT ![p] = Pending]
          /\ ent' = [ent EXCEPT ![p] =
                      [id |-> term.id, row |-> Preload(students[term.id], dto),
                       grade |-> RowsToArray(GradesOf(grades, term.id))]]
          /\ qr' = [qr EXCEPT ![p] = "created"]
          /\ pc' = [pc EXCEPT ![p] = "connect"]
  /\ UNCHANGED <<students, grades, nextStudent, nextGrade, scan, caught, tx>>
  /\ UNCHANGED <<plan, insertPromises>>
  /\ UNCHANGED authVars

\* await queryRunner.connect()  (outside the try block)
Connect(p) ==
  /\ pc[p] = "connect"
  /\ \E ok \in BOOLEAN :
       IF ok
       THEN /\ qr' = [qr EXCEPT ![p] = "connected"]
            /\ pc' = [pc EXCEPT ![p] = "startTransaction"]
            /\ UNCHANGED <<ret, ent, scan, caught>>
       ELSE /\ Exit(p, Thrown("connect"))
            /\ UNCHANGED qr
  /\ UNCHANGED <<students, grades, nextStudent, nextGrade, nops, arg, tx,
                 before, dirty>>
  /\ UNCHANGED <<plan, insertPromises>>
  /\ UNCHANGED authVars

\* await queryRunner.startTransaction()  (outside the try block)
StartTransaction(p) ==
  /\ pc[p] = "startTransaction"
  /\ \E ok \in BOOLEAN :
       IF ok
       THEN /\ tx' = [tx EXCEPT ![p] = [NoTx EXCEPT !.active = TRUE]]
            /\ pc' = [pc EXCEPT ![p] =
                        IF Has(arg[p].dto, "grades") THEN "deleteScan" ELSE "save"]
            /\ UNCHANGED <<ret, ent, scan, caught>>
       ELSE /\ Exit(p, Thrown("startTransaction"))
            /\ UNCHANGED tx
  /\ UNCHANGED <<students, grades, nextStudent, nextGrade, nops, arg, qr,
                 before, dirty>>
  /\ UNCHANGED <<plan, insertPromises>>
  /\ UNCHANGED authVars

\* rows another open transaction has deleted or updated are locked
LockedByOther(p, ids) ==
  \E q \in Procs \ {p} :
    tx[q].active /\ ids \cap (tx[q].del \cup tx[q].nul) # {}

\* the student row is locked by another open transaction that updated it
StudentLockedByOther(p, id) ==
  \E q \in Procs \ {p} :
    tx[q].active /\ tx[q].stu # << >> /\ arg[q].id = id

\* a delete issued on the pooled connection (autocommit) instead of the
\* query runner's transaction
DeleteWriteAutocommit(G, t, ids) ==
  [grades |-> {g \in G : g.id \notin ids}, tx |-> t]

\* queryRunner.manager.delete(Grade, {student: {id}}): the rows are deleted
\* inside the transaction; the table changes at commit
DeleteWrite(G, t, ids) ==
  [grades |-> G, tx |-> [t EXCEPT !.del = @ \cup ids]]

\* the DELETE statement reads the committed rows of the student
DeleteScan(p) ==
  /\ pc[p] = "deleteScan"
  /\ \E ok \in BOOLEAN :
       IF ok
       THEN /\ scan' = [scan EXCEPT ![p] =
                          {g.id : g \in GradesOf(grades, arg[p].id)}]
            /\ pc' = [pc EXCEPT ![p] = "deleteLock"]
            /\ UNCHANGED caught
       ELSE /\ Catch(p, "other")
            /\ UNCHANGED scan
  /\ UNCHANGED <<students, grades, nextStudent, nextGrade, nops, arg, ent,
                 qr, tx, ret, before, dirty>>
  /\ UNCHANGED <<plan, insertPromises>>
  /\ UNCHANGED authVars

\* ... then, once the locks of the rows it found are free, deletes those
\* that still exist and still reference the student (the condition is
\* checked again on the row's latest version);
\* `student.grade = grades.map(...)` follows without an await
DeleteLock(p) ==
  /\ pc[p] = "deleteLock"
  /\ LET found == scan[p] \cap {g.id : g \in grades}
         ids == scan[p] \cap {g.id : g \in GradesOf(grades, arg[p].id)}
         w == DeleteWrite(grades, tx[p], ids)
     IN /\ ~LockedByOther(p, found)
        /\ grades' = w.grades
        /\ tx' = [tx EXCEPT ![p] = w.tx]
  /\ ent' = [ent EXCEPT ![p] = ReplaceGrades(@, arg[p].dto.grades)]
  /\ pc' = [pc EXCEPT ![p] = "save"]
  /\ UNCHANGED <<students, nextStudent, nextGrade, nops, arg, scan, caught,
                 qr, ret, before, dirty>>
  /\ UNCHANGED <<plan, insertPromises>>
  /\ UNCHANGED authVars

\* what queryRunner.manager.save(student) decides to write, from the rows
\* it reads: an INSERT of the student when no row is stored, else an UPDATE
\* of the columns that differ from the stored row (after the lifecycle
\* hook); an INSERT for every grade entity that has no stored row, and a
\* NULL owner for every stored grade of the student that the entity no
\* longer lists
SavePlan(e, t) ==
  LET id == e.id
      present == id \in DOMAIN students
      visible == {g \in GradesOf(grades, id) : g.id \notin t.del}
      visIds == {g.id : g \in visible}
      entIds == {e.grade[i].id : i \in 1..Len(e.grade)} \ {0}
      row == IF ~present
             THEN [e.row EXCEPT !.nickname =
                     checkNicknameInsert(@, e.row.name, e.row.age)]
             ELSE IF e.row # students[id]
             THEN [e.row EXCEPT !.nickname =
                     checkNicknameUpdate(@, e.row.name, e.row.age)]
             ELSE e.row
      cols == IF ~present THEN Cols
              ELSE {c \in Cols : row[c] # students[id][c]}
      NotStored(g) == g.id \notin visIds
  IN [insert |-> ~present,
      set |-> [c \in cols |-> row[c]],
      ins |-> SelectSeq(e.grade, NotStored),
      nul |-> visIds \ entIds]

\* await queryRunner.manager.save(student), first part: the SELECT of the
\* stored student and its grades, and the comparison with the entity
Save(p) ==
  /\ pc[p] = "save"
  /\ \E dbError \in BOOLEAN :
       IF dbError
       THEN /\ Catch(p, "other")
            /\ UNCHANGED plan
       ELSE /\ plan' = [plan EXCEPT ![p] = SavePlan(ent[p], tx[p])]
            /\ pc' = [pc EXCEPT ![p] = "saveWrite"]
            /\ UNCHANGED caught
  /\ UNCHANGED insertPromises
  /\ UNCHANGED <<students, grades, nextStudent, nextGrade, nops, arg, ent,
                 scan, qr, tx, ret, before, dirty>>
  /\ UNCHANGED authVars

\* the grade rows an INSERT of the planned entities stores, ids generated
\* from first on
PlannedGradeRows(ins, sid, first) ==
  LET fresh == {i \in 1..Len(ins) : ins[i].id = 0}
      IdOf(i) == IF ins[i].id = 0
                 THEN first + Cardinality({j \in fresh : j < i})
                 ELSE ins[i].id
  IN {[id |-> IdOf(i), student |-> sid, subject |-> ins[i].subject,
       grade |-> ToText(ins[i].grade)] : i \in 1..Len(ins)}

\* save, second part: the planned statements run in the transaction. An
\* INSERT or UPDATE of the student waits for the row's lock and for the
\* unique index; the UPDATE sets the planned columns on the row as it is
\* then (no row when the student was deleted meanwhile, and then a grade
\* INSERT fails on its foreign key); an INSERT of an id that is stored
\* again fails on the primary key
SaveWrite(p) ==
  /\ pc[p] = "saveWrite"
  /\ LET pl == plan[p]
         id == ent[p].id
         present == id \in DOMAIN students
         writesStudent == pl.insert \/ (DOMAIN pl.set # {} /\ present)
         writesEmail == writesStudent /\ "email" \in DOMAIN pl.set
         rows == PlannedGradeRows(pl.ins, id, nextGrade)
     IN /\ writesStudent => ~StudentLockedByOther(p, id)
        /\ writesEmail => ~EmailHeldByOther(p, pl.set.email)
        /\ ~LockedByOther(p, pl.nul)
        /\ \E dbError \in BOOLEAN :
             IF dbError
             THEN /\ Catch(p, "other")
                  /\ UNCHANGED <<tx, nextGrade>>
             ELSE IF \/ pl.insert /\ present
                     \/ writesEmail /\ EmailTaken(pl.set.email, id)
             THEN /\ Catch(p, "23505")
                  /\ UNCHANGED <<tx, nextGrade>>
             ELSE IF ~pl.insert /\ ~present /\ rows # {}
             THEN /\ Catch(p, "23503")
                  /\ UNCHANGED <<tx, nextGrade>>
             ELSE /\ tx' = [tx EXCEPT ![p] =
                             [@ EXCEPT !.ins = @ \cup rows,
                                       !.nul = @ \cup pl.nul,
                                       !.stu = IF writesStudent
                                               THEN <<[insert |-> pl.insert,
                                                       set |-> pl.set]>>
                                               ELSE @]]
                  /\ nextGrade' = nextGrade + Cardinality({g \in rows : g.id >= nextGrade})
                  /\ pc' = [pc EXCEPT ![p] = "commit"]
                  /\ UNCHANGED caught
  /\ plan' = [plan EXCEPT ![p] = NoPlan]
  /\ UNCHANGED insertPromises
  /\ UNCHANGED <<students, grades, nextStudent, nops, arg, ent, scan, qr,
                 ret, before, dirty>>
  /\ UNCHANGED authVars

\* the tables after the transaction's writes are applied
CommitWrites(S, G, id, t) ==
  [students |->
     IF t.stu = << >> THEN S
     ELSE IF t.stu[1].insert THEN Put(S, id, t.stu[1].set)
     ELSE IF id \in DOMAIN S
     THEN [S EXCEPT ![id] = [c \in Cols |-> IF c \in DOMAIN t.stu[1].set
                                            THEN t.stu[1].set[c] ELSE S[id][c]]]
     ELSE S,
   grades |->
     {IF g.id \in t.nul THEN [g EXCEPT !.student = 0] ELSE g :
        g \in {h \in G : h.id \notin t.del \cup {i.id : i \in t.ins}}}
     \cup t.ins]

\* await queryRunner.commitTransaction()
Commit(p) ==
  /\ pc[p] = "commit"
  /\ \E ok \in BOOLEAN :
       IF ok
       THEN LET w == CommitWrites(students, grades, arg[p].id, tx[p])
            IN /\ students' = w.students
               /\ grades' = w.grades
               /\ tx' = [tx EXCEPT ![p] = NoTx]
               /\ pc' = [pc EXCEPT ![p] = "release"]
               /\ dirty' = [q \in Procs |->
                              IF q # p /\ arg[q].id = arg[p].id
                              THEN TRUE ELSE dirty[q]]
               /\ UNCHANGED caught
       ELSE /\ Catch(p, "other")
            /\ UNCHANGED <<students, grades, tx, dirty>>
  /\ UNCHANGED <<nextStudent, nextGrade, nops, arg, ent, scan, qr, ret, before>>
  /\ UNCHANGED <<plan, insertPromises>>
  /\ UNCHANGED authVars

\* await queryRunner.release()  (after the commit)
Release(p) ==
  /\ pc[p] = "release"
  /\ qr' = [qr EXCEPT ![p] = "released"]
  /\ pc' = [pc EXCEPT ![p] = "findOne"]
  /\ UNCHANGED <<students, grades, nextStudent, nextGrade, nops, arg, ent,
                 scan, caught, tx, ret, before, dirty>>
  /\ UNCHANGED <<plan, insertPromises>>
  /\ UNCHANGED authVars

\* StudentsService.findOne(term): findOneBy({id}) for a UUID, otherwise the
\* query `UPPER(name) = term.toUpperCase() or nickname = term.toLowerCase()`
\* with getOne (any one of the matching rows); grades are loaded with the
\* student.  The set of results the call can have.
findOne(term) ==
  LET found ==
        IF isUUID(term)
        THEN {i \in DOMAIN students : i = term.id}
        ELSE {i \in DOMAIN students :
                \/ toUpperCase(students[i].name) = toUpperCase(term.text)
                \/ students[i].nickname = toLowerCase(term.text)}
  IN IF found = {}
     THEN {NotFound}
     ELSE {Ok("findOne", i, students[i], GradesOf(grades, i)) : i \in found}

\* return this.findOne(id)
UpdateReturn(p) ==
  /\ pc[p] = "findOne"
  /\ \E r \in findOne(arg[p].term) :
       Exit(p, IF r.status = "ok" THEN [r EXCEPT !.op = "update"] ELSE r)
  /\ UNCHANGED <<students, grades, nextStudent, nextGrade, nops, arg, qr, tx,
                 before, dirty>>
  /\ UNCHANGED <<plan, insertPromises>>
  /\ UNCHANGED authVars

\* catch: await queryRunner.rollbackTransaction(); when it throws, the
\* error leaves update and the statements after it are skipped
Rollback(p) ==
  /\ pc[p] = "rollback"
  /\ tx' = [tx EXCEPT ![p] = NoTx]
  /\ \E ok \in BOOLEAN :
       IF ok
       THEN /\ pc' = [pc EXCEPT ![p] = "releaseCatch"]
            /\ UNCHANGED <<ret, ent, scan, caught>>
       ELSE Exit(p, Thrown("rollback"))
  /\ UNCHANGED <<students, grades, nextStudent, nextGrade, nops, arg, qr,
                 before, dirty>>
  /\ UNCHANGED <<plan, insertPromises>>
  /\ UNCHANGED authVars

\* catch: await queryRunner.release(); this.handleException(error)
ReleaseCatch(p) ==
  /\ pc[p] = "releaseCatch"
  /\ qr' = [qr EXCEPT ![p] = "released"]
  /\ Exit(p, handleException(caught[p]))
  /\ UNCHANGED <<students, grades, nextStudent, nextGrade, nops, arg, tx,
                 before, dirty>>
  /\ UNCHANGED <<plan, insertPromises>>
  /\ UNCHANGED authVars

(***************************************************************************)
(* StudentsService.findOne as a request of its own (GET students/:term).   *)
(***************************************************************************)
FindOneRequest(p, term) ==
  /\ pc[p] = "idle"
  /\ term.id <= nextStudent
  /\ nops < MaxOps
  /\ nops' = nops + 1
  /\ arg' = [arg EXCEPT ![p] = [NoArg EXCEPT !.op = "findOne", !.term = term]]
  /\ \E r \in findOne(term) : ret' = [ret EXCEPT ![p] = r]
  /\ qr' = [qr EXCEPT ![p] = "none"]
  /\ before' = [before EXCEPT ![p] = NoSnap]
  /\ dirty' = [dirty EXCEPT ![p] = FALSE]
  /\ UNCHANGED <<students, grades, nextStudent, nextGrade, pc, ent, scan,
                 caught, tx>>
  /\ UNCHANGED <<plan, insertPromises>>
  /\ UNCHANGED authVars

(***************************************************************************)
(* StudentsService.remove: findOne, then studentRepository.remove.         *)
(***************************************************************************)
\* the call resolved without a value
Done(op, id) == [status |-> "ok", op |-> op, id |-> id]

\* const student = await this.findOne(id)
RemoveBegin(p, term) ==
  /\ pc[p] = "idle"
  /\ term.id <= nextStudent
  /\ nops < MaxOps
  /\ nops' = nops + 1
  /\ arg' = [arg EXCEPT ![p] = [NoArg EXCEPT !.op = "remove", !.term = term]]
  /\ qr' = [qr EXCEPT ![p] = "none"]
  /\ before' = [before EXCEPT ![p] = NoSnap]
  /\ dirty' = [dirty EXCEPT ![p] = FALSE]
  /\ \E r \in findOne(term) :
       IF r.status = "NotFound"
       THEN /\ ret' = [ret EXCEPT ![p] = NotFound]
            /\ UNCHANGED <<pc, ent>>
       ELSE /\ ret' = [ret EXCEPT ![p] = Pending]
            /\ ent' = [ent EXCEPT ![p] =
                        [id |-> r.id, row |-> r.row,
                         grade |-> RowsToArray(r.grades)]]
            /\ pc' = [pc EXCEPT ![p] = "remove"]
  /\ UNCHANGED <<students, grades, nextStudent, nextGrade, scan, caught, tx>>
  /\ UNCHANGED <<plan, insertPromises>>
  /\ UNCHANGED authVars

\* another open transaction updated or inserted the student row, or
\* inserted grades that reference it: the row is locked against DELETE
StudentHeldByOther(p, id) ==
  \E q \in Procs \ {p} :
    /\ tx[q].active
    /\ arg[q].id = id
    /\ tx[q].stu # << >> \/ tx[q].ins # {}

\* DELETE FROM student for the rows ids; `onDelete: 'CASCADE'` on
\* grade.student deletes the grades that reference them
DeleteStudents(S, G, ids) ==
  [students |-> [i \in DOMAIN S \ ids |-> S[i]],
   grades |-> {g \in G : g.student \notin ids}]

\* await this.studentRepository.remove(student): DELETE by the id of the
\* entity that findOne loaded, in a transaction of its own
RemoveDelete(p) ==
  /\ pc[p] = "remove"
  /\ LET id == ent[p].id
         w == DeleteStudents(students, grades, {id})
     IN /\ ~StudentHeldByOther(p, id)
        /\ ~LockedByOther(p, {g.id : g \in GradesOf(grades, id)})
        /\ \E dbError \in BOOLEAN :
             IF dbError
             THEN /\ Exit(p, Thrown("remove"))
                  /\ UNCHANGED <<students, grades, dirty>>
             ELSE /\ students' = w.students
                  /\ grades' = w.grades
                  /\ dirty' = [q \in Procs |->
                                 IF q # p /\ arg[q].id = id THEN TRUE ELSE dirty[q]]
                  /\ Exit(p, Done("remove", id))
  /\ UNCHANGED <<nextStudent, nextGrade, nops, arg, qr, tx, before>>
  /\ UNCHANGED <<plan, insertPromises>>
  /\ UNCHANGED authVars

(***************************************************************************)
(* Properties of StudentsService (specification Spec).                     *)
(***************************************************************************)
\* handler p's last call was an update of an existing student that has ended
UpdateEnded(p) == pc[p] = "idle" /\ arg[p].id # 0 /\ before[p].present

\* ... and it ended in the catch block (delete, save or commit failed)
UpdateFailedInTransaction(p) ==
  /\ UpdateEnded(p)
  /\ \/ ret[p].status \in {"undefined", "InternalServerError"}
     \/ ret[p] = Thrown("rollback")

\* C1: when a step of update between startTransaction and the end of the
\* commit fails, then after update has returned or thrown the student's
\* durable row and durable grade rows are those from before the call (as
\* long as no other call committed on that student).
C1_RollbackRestores ==
  \A p \in Procs :
    UpdateFailedInTransaction(p) /\ ~dirty[p]
      => Snapshot(arg[p].id) = before[p]

\* C1 witness: an update that supplied grades for a student who had some
\* failed in save (unique violation), that is after its delete had run.
C1_Witness ==
  \E p \in Procs :
    /\ UpdateFailedInTransaction(p) /\ ~dirty[p]
    /\ Has(arg[p].dto, "grades")
    /\ before[p].grades # {}
    /\ ret[p].status = "InternalServerError"

\* the new grade collection corresponds one to one to the supplied list
MatchesList(rows, gs) ==
  /\ Cardinality(rows) = Len(gs)
  /\ \E f \in [1..Len(gs) -> rows] :
       /\ \A i, j \in 1..Len(gs) : i # j => f[i] # f[j]
       /\ \A i \in 1..Len(gs) :
            /\ f[i].subject = gs[i].subject
            /\ f[i].grade = ToText(gs[i].grade)

UpdateSucceededWithGrades(p) ==
  /\ UpdateEnded(p)
  /\ ret[p].status = "ok"
  /\ Has(arg[p].dto, "grades")
  /\ ~dirty[p]

\* C2: after a successful update that supplied a grades list G (no other
\* writer on that student), the student's durable grades are exactly one
\* new row per element of G, none of them a row that existed before the
\* call, and the returned record shows that collection.
C2_GradesReplaced ==
  \A p \in Procs :
    UpdateSucceededWithGrades(p) =>
      LET cur == GradesOf(grades, arg[p].id)
      IN /\ MatchesList(cur, arg[p].dto.grades)
         /\ {g.id : g \in cur} \cap {g.id : g \in before[p].grades} = {}
         /\ before[p].grades \cap grades = {}
         /\ ret[p].grades = cur

\* C2 witness: one old grade replaced by a list of two.
C2_Witness ==
  \E p \in Procs :
    /\ UpdateSucceededWithGrades(p)
    /\ Cardinality(before[p].grades) = 1
    /\ Len(arg[p].dto.grades) = 2

\* C3: whenever update is not running, the connection its query runner
\* acquired has been released.
C3_QueryRunnerReleased ==
  \A p \in Procs : pc[p] = "idle" => qr[p] # "connected"

\* String.prototype.replaceAll for one-character patterns
replaceAll(s, from, to) == [i \in 1..Len(s) |-> IF s[i] = from THEN to ELSE s[i]]

\* the nickname derived from a name and an age
DerivedNickname(name, age) ==
  replaceAll(toLowerCase(name), " ", "_") \o NumberToString(age)

\* C10: every stored student that has an age has the nickname derived from
\* its current name and current age.
C10_NicknameDerived ==
  \A id \in DOMAIN students :
    students[id].age > 0 =>
      students[id].nickname = DerivedNickname(students[id].name, students[id].age)

\* signOptions.expiresIn: '1h', in seconds
ExpiresIn == 3600

\* configService.get('JWT_SECRET')
JwtSecret == "JWT_SECRET"

Roles == {"admin", "teacher"}

\* the column default of user.roles
DefaultRoles == {"teacher"}

\* the salts bcrypt.hashSync may draw; every call draws one at random
Salts == {"salt1", "salt2"}

RegisterDtos ==
  { [email |-> <<"A">>, fullName |-> "n", password |-> "pw1"],
    [email |-> <<"a">>, fullName |-> "n", password |-> "pw1"],
    [email |-> <<" ", "B">>, fullName |-> "n", password |-> "pw2"] }

LoginDtos ==
  { [email |-> <<"a">>, password |-> "pw1"],
    [email |-> <<"a">>, password |-> "pw2"],
    [email |-> <<"A">>, password |-> "pw1"] }

(***************************************************************************)
(* Auth: configuration, inputs and pure parts.                             *)
(***************************************************************************)
\* a hook that stores the email as given
checkFieldsVerbatim(email) == email

\* User.checkFieldsBeforeChanges (@BeforeInsert, @BeforeUpdate)
checkFieldsBeforeChanges(email) == trim(toLowerCase(email))

\* AuthService.encryptPassword: bcrypt.hashSync(password, 10); the hash
\* embeds a random salt
encryptPassword(password, salt) ==
  [alg |-> "bcrypt", rounds |-> 10, salt |-> salt, digest |-> <<salt, password>>]

\* a comparison that accepts every password
compareAlways(password, hash) == TRUE

\* bcrypt.compareSync(password, hash): re-hash with the salt of the hash
compareSync(password, hash) == hash.digest = <<hash.salt, password>>

\* HMAC of the payload under a secret
Hmac(payload, secret) == <<"HS256", secret, payload>>

\* a sign that stamps no time on the token
signWithoutTimes(payload, t) ==
  LET full == [id |-> payload.id, email |-> payload.email, iat |-> 0,
               exp |-> ExpiresIn]
  IN [payload |-> full, signature |-> Hmac(full, JwtSecret)]

\* AuthService.getJwtToken: jwtService.sign(payload) at clock time t, with
\* the module's secret and expiresIn
getJwtToken(payload, t) ==
  LET full == [id |-> payload.id, email |-> payload.email, iat |-> t,
               exp |-> t + ExpiresIn]
  IN [payload |-> full, signature |-> Hmac(full, JwtSecret)]

\* a token with the same claim signed under another secret
Forge(token) ==
  [token EXCEPT !.signature = Hmac(token.payload, "another secret")]

\* a verification that checks the signature only
verifyIgnoringExpiration(token, t) ==
  token.signature = Hmac(token.payload, JwtSecret)

\* passport-jwt with secretOrKey: signature and expiry check
verifyToken(token, t) ==
  /\ token.signature = Hmac(token.payload, JwtSecret)
  /\ t < token.payload.exp

\* a user object handed on as it was loaded
KeepPassword(user) == user

\* `delete user.password`
DeletePassword(user) == [f \in DOMAIN user \ {"password"} |-> user[f]]

Unauthorized(msg) == [status |-> "Unauthorized", message |-> msg]

\* a validate that does not look at isActive
validateIgnoringActive(payload, users) ==
  IF payload.id \notin DOMAIN users
  THEN Unauthorized("Token not valid")
  ELSE [status |-> "ok", user |-> DeletePassword(users[payload.id])]

\* JwtStrategy.validate
validate(payload, users) ==
  IF payload.id \notin DOMAIN users
  THEN Unauthorized("Token not valid")
  ELSE IF ~users[payload.id].isActive
  THEN Unauthorized("User is not active")
  ELSE [status |-> "ok", user |-> DeletePassword(users[payload.id])]

\* SetMetadata(key, value): the metadata a decorator attaches to a route
SetMetadata(key, value) == [key |-> key, value |-> value]

\* export const RoleProtected = (...args) => SetMetadata('role-protected', args)
RoleProtected(args) == SetMetadata("role-protected", args)

\* this.reflector.get(key, context.getHandler()): the value attached under
\* the key, undefined when the route has none
ReflectorGet(key, meta) ==
  IF meta.key = key
  THEN [defined |-> TRUE, value |-> meta.value]
  ELSE [defined |-> FALSE, value |-> {}]

\* the role declarations of the routes tried: @SetMetadata('roles', [...])
\* as on testPrivate, and @RoleProtected(...)
RouteMetadata ==
  {SetMetadata("roles", rs) : rs \in {{"admin"}, Roles}}
    \cup {RoleProtected({"admin"})}

\* UserRoleGuard.canActivate: reads the route's roles and returns true
canActivate(validRoles, user) == TRUE

\* AuthService.handleException: only a unique violation is rethrown
AuthHandleException(code) ==
  IF code = "23505"
  THEN [status |-> "InternalServerError", code |-> code]
  ELSE ReturnedUndefined

\* a register that signs the email as the client sent it
createPayloadFromDto(user, dto) == [id |-> user.id, email |-> dto.email]

\* the claim AuthService.create signs: {id: user.id, email: user.email}
createPayload(user, dto) == [id |-> user.id, email |-> user.email]

NoReq == [op |-> "none"]

\* requests that have arrived so far
Started == nreq + BagCardinality(pending)

\* a request arrives while a handler is free
Arrives ==
  /\ Started < MaxReqs
  /\ BagCardinality(pending) < Cardinality(Handlers)

\* the request suspends with its locals c
Suspend(c) == pending' = pending (+) SetToBag({c})

\* the suspended request c is resumed
Resume(c) ==
  /\ c \in BagToSet(pending)
  /\ pending' = pending (-) SetToBag({c})

InitAuth ==
  /\ accounts = << >>
  /\ nextUser = 1
  /\ now = 0
  /\ ticks = 0
  /\ nreq = 0
  /\ pending = EmptyBag
  /\ req = NoReq
  /\ resp = NoCall
  /\ issued = {}
  /\ accepted = {}

(***************************************************************************)
(* Auth: requests.                                                         *)
(***************************************************************************)
\* AuthService.create (POST auth/register) up to `await
\* this.userRepository.save(user)`: the entity is built with the hashed
\* password, save runs the @BeforeInsert hook on it and sends the INSERT,
\* which commits by itself; the handler is suspended until the database
\* answers
Register(dto) ==
  /\ Arrives
  /\ \E salt \in Salts, dbError \in BOOLEAN :
       LET email == checkFieldsBeforeChanges(dto.email)
           user == [id |-> nextUser, email |-> email, fullName |-> dto.fullName,
                    password |-> encryptPassword(dto.password, salt),
                    isActive |-> TRUE, roles |-> DefaultRoles]
           taken == \E i \in DOMAIN accounts : accounts[i].email = email
           code == IF dbError THEN "other" ELSE IF taken THEN "23505" ELSE "none"
       IN /\ Suspend([op |-> "register", dto |-> dto, dbError |-> dbError,
                      code |-> code,
                      user |-> IF code = "none" THEN <<user>> ELSE << >>])
          /\ IF code # "none"
             THEN UNCHANGED <<accounts, nextUser>>
             ELSE /\ accounts' = Put(accounts, nextUser, user)
                  /\ nextUser' = nextUser + 1
  /\ UNCHANGED <<now, ticks, nreq, req, resp, issued, accepted>>
  /\ UNCHANGED studentVars

\* AuthService.create after the await: `delete user.password`, the token
\* signed at the clock of this moment, or the catch block
RegisterResume(c) ==
  /\ c.op = "register"
  /\ Resume(c)
  /\ nreq' = nreq + 1
  /\ req' = [op |-> "register", dto |-> c.dto, dbError |-> c.dbError]
  /\ IF c.code # "none"
     THEN /\ resp' = AuthHandleException(c.code)
          /\ UNCHANGED issued
     ELSE LET user == c.user[1]
              token == getJwtToken(createPayload(user, c.dto), now)
          IN /\ resp' = [status |-> "ok", user |-> DeletePassword(user),
                         token |-> token]
             /\ issued' = issued \cup
                            {[id |-> user.id, token |-> token, at |-> now]}
  /\ UNCHANGED <<accounts, nextUser, now, ticks, accepted>>
  /\ UNCHANGED studentVars

\* AuthService.login (POST auth/login) up to `await this.userRepository
\* .findOne({where: {email}, select: {email, password, id}})`; null is the
\* empty sequence
Login(dto) ==
  /\ Arrives
  /\ LET found == {i \in DOMAIN accounts : accounts[i].email = dto.email}
         row == accounts[CHOOSE i \in found : TRUE]
     IN Suspend([op |-> "login", dto |-> dto,
                 user |-> IF found = {} THEN << >>
                          ELSE <<[id |-> row.id, email |-> row.email,
                                  password |-> row.password]>>])
  /\ UNCHANGED <<accounts, nextUser, now, ticks, nreq, req, resp, issued, accepted>>
  /\ UNCHANGED studentVars

\* AuthService.login after the await: the checks on the row that was read
\* and the token signed at the clock of this moment
LoginResume(c) ==
  /\ c.op = "login"
  /\ Resume(c)
  /\ nreq' = nreq + 1
  /\ req' = [op |-> "login", dto |-> c.dto]
  /\ IF c.user = << >>
     THEN /\ resp' = NotFound
          /\ UNCHANGED issued
     ELSE LET user == c.user[1]
              token == getJwtToken([id |-> user.id, email |-> user.email], now)
          IN IF ~compareSync(c.dto.password, user.password)
             THEN /\ resp' = Unauthorized("Email or password incorrect")
                  /\ UNCHANGED issued
             ELSE /\ resp' = [status |-> "ok", user |-> DeletePassword(user),
                              token |-> token]
                  /\ issued' = issued \cup
                                 {[id |-> user.id, token |-> token, at |-> now]}
  /\ UNCHANGED <<accounts, nextUser, now, ticks, accepted>>
  /\ UNCHANGED studentVars

\* GET auth/private, AuthGuard(): passport-jwt verifies the signature and
\* the expiry of the token against the clock of the arrival; a token that
\* fails is answered at once, otherwise JwtStrategy.validate is called
\* and suspended at `await this.userRepository.findOneBy({id})`
PrivateRequest(token, meta) ==
  /\ Arrives
  /\ IF ~verifyToken(token, now)
     THEN /\ nreq' = nreq + 1
          /\ req' = [op |-> "private", token |-> token, meta |-> meta,
                     roles |-> ReflectorGet("roles", meta).value]
          /\ resp' = Unauthorized("Unauthorized")
          /\ UNCHANGED pending
     ELSE /\ Suspend([op |-> "private", token |-> token, meta |-> meta])
          /\ UNCHANGED <<nreq, req, resp>>
  /\ UNCHANGED <<accounts, nextUser, now, ticks, issued, accepted>>
  /\ UNCHANGED studentVars

\* JwtStrategy.validate after the await, on the row findOneBy read; then
\* UserRoleGuard with the route's 'roles' metadata, then the handler
PrivateValidate(c) ==
  /\ c.op = "private"
  /\ Resume(c)
  /\ nreq' = nreq + 1
  /\ req' = [op |-> "private", token |-> c.token, meta |-> c.meta,
             roles |-> ReflectorGet("roles", c.meta).value]
  /\ LET validRoles == ReflectorGet("roles", c.meta).value
         auth == validate(c.token.payload, accounts)
     IN /\ resp' = IF auth.status # "ok" THEN auth
                   ELSE IF canActivate(validRoles, auth.user)
                   THEN [status |-> "ok", user |-> auth.user]
                   ELSE [status |-> "Forbidden", user |-> auth.user]
        /\ accepted' = IF auth.status = "ok" THEN accepted \cup {c.token}
                       ELSE accepted
  /\ UNCHANGED <<accounts, nextUser, now, ticks, issued>>
  /\ UNCHANGED studentVars

\* an administrator clears user.isActive in the database
Deactivate(id) ==
  /\ id \in DOMAIN accounts
  /\ accounts[id].isActive
  /\ accounts' = [accounts EXCEPT ![id].isActive = FALSE]
  /\ UNCHANGED <<nextUser, now, ticks, nreq, pending, req, resp, issued, accepted>>
  /\ UNCHANGED studentVars

\* an administrator deletes the user row
DeleteAccount(id) ==
  /\ id \in DOMAIN accounts
  /\ accounts' = [i \in DOMAIN accounts \ {id} |-> accounts[i]]
  /\ UNCHANGED <<nextUser, now, ticks, nreq, pending, req, resp, issued, accepted>>
  /\ UNCHANGED studentVars

\* time passes
Tick(d) ==
  /\ ticks < MaxTicks
  /\ ticks' = ticks + 1
  /\ now' = now + d
  /\ UNCHANGED <<accounts, nextUser, nreq, pending, req, resp, issued, accepted>>
  /\ UNCHANGED studentVars

NextAuth ==
  \/ \E dto \in RegisterDtos : Register(dto)
  \/ \E c \in BagToSet(pending) : RegisterResume(c)
  \/ \E dto \in LoginDtos : Login(dto)
  \/ \E c \in BagToSet(pending) : LoginResume(c)
  \/ \E e \in issued, meta \in RouteMetadata :
       \E token \in {e.token, Forge(e.token)} :
         PrivateRequest(token, meta)
  \/ \E c \in BagToSet(pending) : PrivateValidate(c)
  \/ \E id \in DOMAIN accounts : Deactivate(id)
  \/ \E id \in DOMAIN accounts : DeleteAccount(id)
  \/ \E d \in {1, ExpiresIn} : Tick(d)

(***************************************************************************)
(* Seed: GET seed -> SeedService.runSeed -> insertNewStudents.             *)
(***************************************************************************)
\* the guards declared on SeedController and on executeSeed: none
executeSeedGuards == {}

\* a route lets a request through when each of its guards does
Admits(guards, token, t, users) ==
  "AuthGuard" \in guards =>
    /\ verifyToken(token, t)
    /\ validate(token.payload, users).status = "ok"

\* initialData.students
initialData ==
  << [name |-> <<"J", " ", "P">>, age |-> 20, email |-> "e1", gender |-> "Male",
      grades |-> <<GMath>>],
     [name |-> <<"A">>, email |-> "e2", gender |-> "Female"] >>

\* the states of a promise of insertPromises: not settled, resolved with
\* the saved student, resolved without a value, rejected
PromiseStates == {"pending", "fulfilled", "undefined", "rejected"}

\* the state in which a create that ended with this outcome leaves its promise
Settled(outcome) ==
  IF outcome.status = "ok" THEN "fulfilled"
  ELSE IF outcome = ReturnedUndefined THEN "undefined"
  ELSE "rejected"

\* SeedController.executeSeed up to `await this.studentsService
\* .deleteAllStudents()`: DELETE FROM student in one statement, the grades
\* that reference a student go by `onDelete: 'CASCADE'`; then forEach
\* calls students.create for every seed student, which sends the INSERTs,
\* and the handler is suspended at `await Promise.all(insertPromises)`
ExecuteSeed(p, token) ==
  /\ pc[p] = "idle"
  /\ nops + Len(initialData) <= MaxOps
  /\ nops' = nops + Len(initialData)
  /\ arg' = [arg EXCEPT ![p] = [NoArg EXCEPT !.op = "seed", !.token = token]]
  /\ qr' = [qr EXCEPT ![p] = "none"]
  /\ before' = [before EXCEPT ![p] = NoSnap]
  /\ IF ~Admits(executeSeedGuards, token, now, accounts)
     THEN /\ ret' = [ret EXCEPT ![p] = Unauthorized("Unauthorized")]
          /\ dirty' = [dirty EXCEPT ![p] = FALSE]
          /\ insertPromises' = [insertPromises EXCEPT ![p] = << >>]
          /\ UNCHANGED <<students, grades, pc>>
     ELSE /\ \A id \in DOMAIN students : ~StudentHeldByOther(p, id)
          /\ ~LockedByOther(p, {g.id : g \in {h \in grades : h.student # 0}})
          /\ \E dbError \in BOOLEAN :
               IF dbError
               THEN /\ ret' = [ret EXCEPT ![p] = Thrown("deleteAllStudents")]
                    /\ dirty' = [dirty EXCEPT ![p] = FALSE]
                    /\ insertPromises' = [insertPromises EXCEPT ![p] = << >>]
                    /\ UNCHANGED <<students, grades, pc>>
               ELSE LET w == DeleteStudents(students, grades, DOMAIN students)
                    IN /\ students' = w.students
                       /\ grades' = w.grades
                       /\ dirty' = [q \in Procs |->
                                      IF q = p THEN FALSE
                                      ELSE IF arg[q].id \in DOMAIN students THEN TRUE
                                      ELSE dirty[q]]
                       /\ ret' = [ret EXCEPT ![p] = Pending]
                       /\ insertPromises' =
                            [insertPromises EXCEPT ![p] =
                               [k \in 1..Len(initialData) |-> "pending"]]
                       /\ pc' = [pc EXCEPT ![p] = "seedInsert"]
  /\ UNCHANGED <<nextStudent, nextGrade, ent, scan, caught, tx>>
  /\ UNCHANGED plan
  /\ UNCHANGED authVars

\* `await Promise.all(insertPromises)` when one more promise has settled:
\* the first rejection rejects runSeed, which answers the request while the
\* other creates go on; when every promise is resolved runSeed returns
\* 'SEED EXECUTED'
PromiseAll(p, promises) ==
  LET open == \E k \in DOMAIN promises : promises[k] = "pending"
      rejected == \E k \in DOMAIN promises : promises[k] = "rejected"
  IN /\ pc' = [pc EXCEPT ![p] = IF open THEN IF rejected THEN "seedTail"
                                                ELSE pc[p]
                                 ELSE "idle"]
     /\ ret' = [ret EXCEPT ![p] =
                  IF pc[p] = "seedTail" THEN ret[p]
                  ELSE IF rejected
                  THEN handleException("23505")
                  ELSE IF open THEN ret[p]
                  ELSE [status |-> "ok", op |-> "seed",
                        value |-> "SEED EXECUTED"]]

\* the k-th students.create of a seed run: a transaction of its own, like
\* Create; the database runs the INSERTs of one seed in any order
SeedCreate(p, k) ==
  /\ pc[p] \in {"seedInsert", "seedTail"}
  /\ k \in DOMAIN insertPromises[p]
  /\ insertPromises[p][k] = "pending"
  /\ LET dto == initialData[k]
         gs == IF Has(dto, "grades") THEN dto.grades ELSE << >>
         row == NewStudentRow(dto)
         rows == NewGradeRows(gs, nextStudent, nextGrade)
     IN \E dbError \in BOOLEAN :
          LET stored == ~dbError /\ ~EmailTaken(dto.email, 0)
              outcome == IF dbError THEN handleException("other")
                         ELSE IF ~stored THEN handleException("23505")
                         ELSE Ok("create", nextStudent, CreatedEntity(dto),
                                 CreatedGrades(gs, nextGrade))
              promises == [insertPromises[p] EXCEPT ![k] = Settled(outcome)]
          IN /\ ~dbError => ~EmailHeldByOther(p, dto.email)
             /\ IF stored
                THEN /\ students' = Put(students, nextStudent, row)
                     /\ grades' = grades \cup rows
                     /\ nextStudent' = nextStudent + 1
                     /\ nextGrade' = nextGrade + Len(gs)
                ELSE UNCHANGED <<students, grades, nextStudent, nextGrade>>
             /\ insertPromises' = [insertPromises EXCEPT ![p] = promises]
             /\ PromiseAll(p, promises)
  /\ UNCHANGED <<nops, arg, ent, scan, caught, qr, tx, before, dirty>>
  /\ UNCHANGED plan
  /\ UNCHANGED authVars

NextStudents ==
  \/ \E p \in Procs, dto \in CreateStudentDtos : Create(p, dto)
  \/ \E p \in Procs, term \in Terms, dto \in UpdateStudentDtos :
       UpdateBegin(p, term, dto)
  \/ \E p \in Procs : Connect(p)
  \/ \E p \in Procs : StartTransaction(p)
  \/ \E p \in Procs : DeleteScan(p)
  \/ \E p \in Procs : DeleteLock(p)
  \/ \E p \in Procs : Save(p)
  \/ \E p \in Procs : SaveWrite(p)
  \/ \E p \in Procs : Commit(p)
  \/ \E p \in Procs : Release(p)
  \/ \E p \in Procs : UpdateReturn(p)
  \/ \E p \in Procs : Rollback(p)
  \/ \E p \in Procs : ReleaseCatch(p)
  \/ \E p \in Procs, term \in Terms : FindOneRequest(p, term)
  \/ \E p \in Procs, term \in Terms : RemoveBegin(p, term)
  \/ \E p \in Procs : RemoveDelete(p)
  \/ \E p \in Procs : ExecuteSeed(p, NoToken)
  \/ \E p \in Procs, k \in DOMAIN initialData : SeedCreate(p, k)

vars == <<studentVars, authVars>>

Init == InitStudents /\ InitAuth

Next == NextStudents

Spec == Init /\ [][Next]_vars

SpecAuth == Init /\ [][NextAuth]_vars

(***************************************************************************)
(* Properties of the auth core (specification SpecAuth).                   *)
(***************************************************************************)
\* the step answers a request of kind op
Handles(op) == nreq' = nreq + 1 /\ req'.op = op

\* the step suspends the arriving request with the locals c
Arrived(c) == pending' = pending (+) SetToBag({c})

\* the step resumes the suspended request c and answers it
Resumed(c) == pending = pending' (+) SetToBag({c})

\* the normalized form of an email
Normalized(email) == trim(toLowerCase(email))

\* C4: on a route that declares a non-empty role set, an authenticated
\* request passes exactly when the account has one of the declared roles,
\* and is Forbidden otherwise.
C4_RoleGate ==
  (req.op = "private" /\ req.roles # {} /\ resp.status # "Unauthorized") =>
    IF req.roles \cap resp.user.roles # {}
    THEN resp.status = "ok"
    ELSE resp.status = "Forbidden"

\* C5: a protected request whose token passed the signature and expiry
\* check is rejected as Unauthorized exactly when, at the moment
\* JwtStrategy.validate reads the account, the token's account is missing
\* or inactive; when accepted, the attached user is that account without
\* its password.
C5_GateRechecksAccount ==
  [][ \A c \in BagToSet(pending) :
        (Resumed(c) /\ c.op = "private") =>
          LET id == c.token.payload.id
              live == id \in DOMAIN accounts /\ accounts[id].isActive
          IN /\ c.token.signature = Hmac(c.token.payload, JwtSecret)
             /\ Handles("private")
             /\ resp'.status = "Unauthorized" <=> ~live
             /\ resp'.status # "Unauthorized" =>
                  /\ "password" \notin DOMAIN resp'.user
                  /\ resp'.user.id = id ]_vars

\* C5 witness: an unexpired token that the gate accepted before is rejected.
C5_Witness ==
  /\ req.op = "private"
  /\ resp.status = "Unauthorized"
  /\ req.token \in accepted
  /\ now < req.token.payload.exp

UniqueNormalizedEmails ==
  \A i, j \in DOMAIN accounts :
    i # j => Normalized(accounts[i].email) # Normalized(accounts[j].email)

\* C6: no two stored accounts ever share a normalized email, and a
\* register whose normalized email is stored when its INSERT runs stores
\* nothing and fails with the unique-violation error.
C6_DuplicateEmailRejected ==
  /\ []UniqueNormalizedEmails
  /\ [][ /\ \A c \in BagToSet(pending') :
             (Arrived(c) /\ c.op = "register" /\ ~c.dbError
                /\ \E i \in DOMAIN accounts :
                     accounts[i].email = Normalized(c.dto.email)) =>
               /\ c.code = "23505"
               /\ accounts' = accounts
         /\ \A c \in BagToSet(pending) :
             (Resumed(c) /\ c.op = "register" /\ c.code = "23505") =>
               /\ Handles("register")
               /\ resp'.status = "InternalServerError"
               /\ resp'.code = "23505"
               /\ accounts' = accounts
               /\ issued' = issued ]_vars

\* C6 witness: a register was refused for an email that differs from the
\* stored one in case or padding only.
C6_Witness ==
  /\ req.op = "register"
  /\ resp.status = "InternalServerError"
  /\ \E i \in DOMAIN accounts :
       /\ accounts[i].email = Normalized(req.dto.email)
       /\ accounts[i].email # req.dto.email

\* C7: a register whose normalized email is unused when its INSERT runs
\* stores exactly one new account, and returns it without password, with a
\* token whose claim has the new account's id and the (normalized) email
\* that was stored.
C7_RegisterResult ==
  [][ /\ \A c \in BagToSet(pending') :
          (Arrived(c) /\ c.op = "register" /\ ~c.dbError
             /\ \A i \in DOMAIN accounts :
                  accounts[i].email # Normalized(c.dto.email)) =>
            /\ c.code = "none"
            /\ Cardinality(DOMAIN accounts' \ DOMAIN accounts) = 1
            /\ \A i \in DOMAIN accounts :
                 i \in DOMAIN accounts' /\ accounts'[i] = accounts[i]
            /\ LET id == CHOOSE i \in DOMAIN accounts' \ DOMAIN accounts : TRUE
               IN /\ c.user = <<accounts'[id]>>
                  /\ accounts'[id].id = id
                  /\ accounts'[id].email = Normalized(c.dto.email)
      /\ \A c \in BagToSet(pending) :
          (Resumed(c) /\ c.op = "register" /\ c.code = "none") =>
            /\ Handles("register")
            /\ resp'.status = "ok"
            /\ "password" \notin DOMAIN resp'.user
            /\ resp'.user.id = c.user[1].id
            /\ resp'.token.payload.id = c.user[1].id
            /\ resp'.token.payload.email = c.user[1].email
            /\ resp'.token.signature = Hmac(resp'.token.payload, JwtSecret)
            /\ accounts' = accounts ]_vars

\* C7 witness: a register succeeded for an email that was not in
\* normalized form.
C7_Witness ==
  /\ req.op = "register"
  /\ resp.status = "ok"
  /\ req.dto.email # resp.user.email

\* the stored account with exactly this email, as a set of ids
WithEmail(email) == {i \in DOMAIN accounts : accounts[i].email = email}

\* the password is the one the stored hash was made from
PasswordMatches(password, hash) == hash.digest[2] = password

\* C8: login fails with NotFound when no account has the supplied email
\* (when its SELECT runs), with Unauthorized when the account exists and
\* the password does not verify against the hash read, issues no token in
\* both cases, and returns a token only when the account exists and the
\* password verifies.
C8_LoginOutcomes ==
  [][ /\ \A c \in BagToSet(pending') :
          (Arrived(c) /\ c.op = "login") =>
            LET ids == WithEmail(c.dto.email)
            IN /\ c.user = << >> <=> ids = {}
               /\ c.user # << >> =>
                    /\ c.user[1].id \in ids
                    /\ c.user[1].password = accounts[c.user[1].id].password
      /\ \A c \in BagToSet(pending) :
          (Resumed(c) /\ c.op = "login") =>
            LET good == /\ c.user # << >>
                        /\ PasswordMatches(c.dto.password, c.user[1].password)
            IN /\ Handles("login")
               /\ c.user = << >> => resp'.status = "NotFound"
               /\ (c.user # << >> /\ ~good) => resp'.status = "Unauthorized"
               /\ resp'.status \in {"NotFound", "Unauthorized"} =>
                    "token" \notin DOMAIN resp' /\ issued' = issued
               /\ "token" \in DOMAIN resp' <=> good ]_vars

\* C8 witness: a login with the email of a stored account and a wrong
\* password was refused.
C8_Witness ==
  /\ req.op = "login"
  /\ resp.status = "Unauthorized"
  /\ WithEmail(req.dto.email) # {}

LoginSucceeds == Handles("login") /\ resp'.status = "ok"

\* C9 (as stated): the token of a successful login differs from every
\* token issued before for the same account.
C9_LoginTokenFresh ==
  [][ LoginSucceeds =>
      \A e \in issued : e.id = resp'.user.id => e.token # resp'.token ]_vars

\* C9 (amended): the token of a successful login differs from every token
\* issued for the same account at another clock second.
C9_LoginTokenFreshAcrossSeconds ==
  [][ LoginSucceeds =>
      \A e \in issued :
        (e.id = resp'.user.id /\ e.at # now) => e.token # resp'.token ]_vars

\* C9 witness: a login succeeded for an account that had been issued a
\* token at an earlier second.
C9_Witness ==
  /\ req.op = "login"
  /\ resp.status = "ok"
  /\ \E e \in issued : e.id = resp.user.id /\ e.at < resp.token.payload.iat

\* C18: every token issued expires 3600 seconds after it was issued, and
\* a protected request that arrives with a token that has reached its
\* expiry, or is not signed under the configured secret, is rejected as
\* Unauthorized at once, whatever the state of its account: no such token
\* gets as far as the account lookup, and a request answered on arrival is
\* answered Unauthorized.
C18_ExpiryAndSignature ==
  /\ [](\A e \in issued :
          /\ e.token.payload.iat = e.at
          /\ e.token.payload.exp = e.at + 3600)
  /\ [][ /\ \A c \in BagToSet(pending') :
             (Arrived(c) /\ c.op = "private") =>
               /\ now < c.token.payload.exp
               /\ c.token.signature = Hmac(c.token.payload, JwtSecret)
         /\ (Handles("private") /\ pending' = pending) =>
               /\ resp'.status = "Unauthorized"
               /\ accepted' = accepted ]_vars

\* C18 witness: a correctly signed token of an account that is stored and
\* active was rejected once its hour had passed.
C18_Witness ==
  /\ req.op = "private"
  /\ resp.status = "Unauthorized"
  /\ req.token.signature = Hmac(req.token.payload, JwtSecret)
  /\ now >= req.token.payload.exp
  /\ req.token.payload.id \in DOMAIN accounts
  /\ accounts[req.token.payload.id].isActive

\* C19: no response of register, of login or of the authentication gate
\* carries a password field in its user object, and a token's claim holds
\* the id, the email and the two time stamps only.
C19_NoPasswordOutward ==
  /\ "password" \notin DOMAIN resp
  /\ "user" \in DOMAIN resp => "password" \notin DOMAIN resp.user
  /\ "token" \in DOMAIN resp =>
       DOMAIN resp.token.payload = {"id", "email", "iat", "exp"}

\* C19 witness: a login succeeded, for which the password hash had been
\* selected from the user table.
C19_Witness ==
  /\ req.op = "login"
  /\ resp.status = "ok"
  /\ resp.user.id \in DOMAIN accounts
  /\ "password" \in DOMAIN accounts[resp.user.id]

\* upper-case letters of the alphabet used
UpperLetters == {"A", "B", "J", "P", "Q", "X"}

\* the text has no upper-case letter and no blank at either end
IsNormalForm(email) ==
  /\ \A i \in 1..Len(email) : email[i] \notin UpperLetters
  /\ email # << >> => (email[1] # " " /\ email[Len(email)] # " ")

\* C21: the email of every stored account is lowercased and trimmed,
\* whatever casing or padding the register input had.
C21_StoredEmailsNormalized ==
  \A i \in DOMAIN accounts : IsNormalForm(accounts[i].email)

\* C21 witness: a register whose email came with a leading blank and an
\* upper-case letter stored an account.
C21_Witness ==
  /\ req.op = "register"
  /\ resp.status = "ok"
  /\ req.dto.email[1] = " "
  /\ req.dto.email[Len(req.dto.email)] \in UpperLetters
  /\ resp.user.id \in DOMAIN accounts

\* C23: a login with the right password and an email that differs from an
\* account's email in letter case only finds that account.
C23_LoginCaseInsensitive ==
  [][ \A c \in BagToSet(pending') :
        (Arrived(c) /\ c.op = "login") =>
          \A i \in DOMAIN accounts :
            (/\ toLowerCase(c.dto.email) = toLowerCase(accounts[i].email)
             /\ PasswordMatches(c.dto.password, accounts[i].password))
              => (c.user # << >> /\ c.user[1].id = i) ]_vars

\* C24: a login with the right password goes on to its token only for an
\* account that is active when the login reads it.
C24_InactiveCannotLogin ==
  [][ \A c \in BagToSet(pending') :
        (/\ Arrived(c)
         /\ c.op = "login"
         /\ c.user # << >>
         /\ PasswordMatches(c.dto.password, c.user[1].password))
          => accounts[c.user[1].id].isActive ]_vars

\* C25: on a route decorated with @RoleProtected(r1..rn) the role set the
\* guard reads as validRoles is {r1..rn}.
C25_GuardReadsDeclaredRoles ==
  \A rs \in SUBSET Roles :
    (req.op = "private" /\ req.meta = RoleProtected(rs)) =>
      (ReflectorGet("roles", req.meta).defined /\ req.roles = rs)

\* C30: a login that arrives after a successful register, with exactly
\* the same email and password, finds the account that was created, and
\* its password verifies.
C30_RegisterLoginRoundTrip ==
  [][ \A c \in BagToSet(pending') :
        (/\ req.op = "register"
         /\ resp.status = "ok"
         /\ resp.user.id \in DOMAIN accounts
         /\ accounts[resp.user.id].isActive
         /\ Arrived(c)
         /\ c.op = "login"
         /\ c.dto.email = req.dto.email
         /\ c.dto.password = req.dto.password)
        => (/\ c.user # << >>
            /\ c.user[1].id = resp.user.id
            /\ PasswordMatches(c.dto.password, c.user[1].password)) ]_vars

(***************************************************************************)
(* Further properties of StudentsService (specification Spec).             *)
(***************************************************************************)
\* the step in which handler p's create returned the saved student
Created(p) ==
  ret'[p] # ret[p] /\ ret'[p].status = "ok" /\ ret'[p].op = "create"

\* C11: a student created with a name and an age (the DTO carries no
\* nickname) is stored with the nickname made of the lowercased name with
\* every space replaced by an underscore, followed by the decimal age.
C11_CreatedNickname ==
  [][ \A p \in Procs :
        Created(p) =>
          LET row == students'[ret'[p].id]
          IN row.age > 0 => row.nickname = DerivedNickname(row.name, row.age) ]_vars


\* C12: a create or an update whose persistence step failed ends with an
\* error delivered to its caller; it never returns normally with an
\* undefined result.
C12_FailuresSurface ==
  \A p \in Procs : ret[p] # ReturnedUndefined

\* C13: every stored grade row references a stored student.
C13_GradesOwned ==
  \A g \in grades : g.student \in DOMAIN students

\* the step in which handler p's call began (the other handler did not move)
Calls(p) ==
  /\ nops' = nops + 1
  /\ pc[p] = "idle"
  /\ \A q \in Procs \ {p} : arg'[q] = arg[q] /\ ret'[q] = ret[q] /\ pc'[q] = pc[q]

\* the route parameter is the id of a stored student
Matches(term) == \E i \in DOMAIN students : term = Uuid(i)

\* C14: update and remove called with an id that is the id of no stored
\* student fail with NotFound, change no student row and no grade row, and
\* (update) open no connection and no transaction.
C14_MissingIdNotFound ==
  [][ \A p \in Procs :
        (Calls(p) /\ arg'[p].op \in {"update", "remove"} /\ ~Matches(arg'[p].term))
          => /\ ret'[p] = NotFound
             /\ students' = students
             /\ grades' = grades
             /\ pc'[p] = "idle"
             /\ qr'[p] = "none"
             /\ ~tx'[p].active ]_vars

\* handler p's last call was a successful update that carried no grades
\* (no other call committed on that student meanwhile)
UpdateSucceededWithoutGrades(p) ==
  /\ UpdateEnded(p)
  /\ ret[p].status = "ok"
  /\ ~Has(arg[p].dto, "grades")
  /\ ~dirty[p]

\* C15: after a successful update without grades, every stored column the
\* DTO did not carry (the derived nickname aside) has the value from before
\* the call, and the student's grade rows are the same rows as before.
C15_PartialUpdateFrame ==
  \A p \in Procs :
    UpdateSucceededWithoutGrades(p) =>
      /\ \A c \in Cols \ (DOMAIN arg[p].dto \cup {"nickname"}) :
           students[arg[p].id][c] = before[p].row[c]
      /\ GradesOf(grades, arg[p].id) = before[p].grades

\* C15 witness: an update of the age alone succeeded on a student who has
\* a grade.
C15_Witness ==
  \E p \in Procs :
    /\ UpdateSucceededWithoutGrades(p)
    /\ DOMAIN arg[p].dto = {"age"}
    /\ students[arg[p].id].age # before[p].row.age
    /\ before[p].grades # {}

\* handler p runs an update that replaces a non-empty grade collection by
\* a non-empty one (no other call committed on that student meanwhile)
Replacing(p) ==
  /\ pc[p] # "idle"
  /\ arg[p].op = "update"
  /\ Has(arg[p].dto, "grades")
  /\ arg[p].dto.grades # << >>
  /\ before[p].grades # {}
  /\ ~dirty[p]

\* C16: a findOne of another request that runs while such an update is in
\* progress returns the student with exactly the old grade rows or with
\* exactly the new ones.
C16_ReaderSeesOldOrNew ==
  [][ \A r \in Procs : \A p \in Procs \ {r} :
        (Calls(r) /\ arg'[r].op = "findOne" /\ Replacing(p)
           /\ ret'[r].status = "ok" /\ ret'[r].id = arg[p].id)
          => \/ ret'[r].grades = before[p].grades
             \/ MatchesList(ret'[r].grades, arg[p].dto.grades) ]_vars

\* C16 witness: a reader got the old grades from findOne while the update
\* had deleted them in its transaction and not yet committed.
C16_Witness ==
  \E r \in Procs : \E p \in Procs \ {r} :
    /\ Replacing(p)
    /\ pc[p] \in {"save", "commit"}
    /\ tx[p].del # {}
    /\ arg[r].op = "findOne"
    /\ ret[r].status = "ok"
    /\ ret[r].id = arg[p].id
    /\ ret[r].grades = before[p].grades

\* handler p's current call is an update whose commit has succeeded
Committed(p) ==
  /\ arg[p].op = "update"
  /\ \/ pc[p] \in {"release", "findOne"}
     \/ pc[p] = "idle" /\ ret[p].status = "ok"

\* C17: when an update commits after another update of the same student
\* that ran concurrently with it has committed, every column its DTO
\* carried is stored with the DTO's value once it has committed.
C17_LastWriterWins ==
  [][ \A q \in Procs : \A p \in Procs \ {q} :
        (pc[q] = "commit" /\ pc'[q] = "release" /\ dirty[q]
           /\ Committed(p) /\ arg[p].id = arg[q].id)
          => \A c \in DOMAIN arg[q].dto \cap Cols :
               students'[arg[q].id][c] = arg[q].dto[c] ]_vars

\* the token is one the authentication gate accepts now
ValidToken(token) ==
  /\ verifyToken(token, now)
  /\ validate(token.payload, accounts).status = "ok"

\* C20: deleteAllStudents runs only on behalf of a request that carries a
\* valid token of an active account.
C20_DeleteAllGuarded ==
  [][ \A p \in Procs :
        (pc[p] = "idle" /\ pc'[p] = "seedInsert") => ValidToken(arg'[p].token) ]_vars

\* the database answered the insert of handler p's create (the save did not
\* end in an error of another kind, such as a lost connection)
InsertAnswered(p) == ret'[p] # ReturnedUndefined

\* C22: a create writes the student row and one grade row per supplied
\* grade, all of them or none: when it succeeds the student and every grade
\* of the DTO are stored, when it does not nothing is stored; a create
\* whose email is the email of a stored student never succeeds, stores
\* nothing, and fails with the unique-violation error whenever the database
\* answers the insert.
C22_CreateAtomic ==
  [][ \A p \in Procs : \A dto \in CreateStudentDtos :
        Create(p, dto) =>
          LET gs == IF Has(dto, "grades") THEN dto.grades ELSE << >>
              newS == DOMAIN students' \ DOMAIN students
              newG == grades' \ grades
              all == /\ Cardinality(newS) = 1
                     /\ \A i \in newS : students'[i].email = dto.email
                     /\ Cardinality(newG) = Len(gs)
                     /\ \A k \in 1..Len(gs) :
                          \E g \in newG : /\ g.student \in newS
                                          /\ g.subject = gs[k].subject
              none == newS = {} /\ newG = {}
          IN /\ \A i \in DOMAIN students : students'[i] = students[i]
             /\ grades \subseteq grades'
             /\ IF ret'[p].status = "ok" THEN all ELSE none
             /\ EmailTaken(dto.email, 0) =>
                  /\ none
                  /\ ret'[p].status # "ok"
                  /\ InsertAnswered(p) =>
                       ret'[p] = [status |-> "InternalServerError",
                                  code |-> "23505"] ]_vars

\* C22 witness: one create stored a student together with its grades, and
\* another create was refused for its duplicate email.
C22_Witness ==
  \E p \in Procs : \E q \in Procs \ {p} :
    /\ arg[p].op = "create"
    /\ ret[p].status = "ok"
    /\ ret[p].grades # {}
    /\ \A g \in ret[p].grades :
         \E h \in grades : h.id = g.id /\ h.student = ret[p].id
    /\ ret[p].id \in DOMAIN students
    /\ arg[q].op = "create"
    /\ ret[q] = [status |-> "InternalServerError", code |-> "23505"]

\* the step in which handler p's runSeed returned 'SEED EXECUTED'
SeedReturned(p) ==
  /\ pc[p] = "seedInsert"
  /\ pc'[p] = "idle"
  /\ ret'[p] = [status |-> "ok", op |-> "seed", value |-> "SEED EXECUTED"]

\* no other handler has made a call
NoOtherWriter(p) == \A q \in Procs \ {p} : arg'[q].op = "none"

\* C26: runSeed returns 'SEED EXECUTED' only when every student of the seed
\* data was inserted by it, and then, when no other handler has written,
\* the stored students are exactly the seed data.
C26_SeedExecutedMeansSeeded ==
  [][ \A p \in Procs :
        SeedReturned(p) =>
          /\ \A k \in DOMAIN initialData : insertPromises'[p][k] = "fulfilled"
          /\ NoOtherWriter(p) =>
               /\ Cardinality(DOMAIN students') = Len(initialData)
               /\ \A k \in DOMAIN initialData :
                    \E i \in DOMAIN students' :
                      /\ students'[i].email = initialData[k].email
                      /\ students'[i].name = initialData[k].name ]_vars

\* handler p's last call was an update that supplied a grades list,
\* committed and returned the student
UpdatedGrades(p) ==
  /\ UpdateEnded(p)
  /\ arg[p].op = "update"
  /\ ret[p].status = "ok"
  /\ Has(arg[p].dto, "grades")

\* C27: after two updates of the same student that ran concurrently, both
\* supplied a grades list and both committed, the student's stored grades
\* correspond to exactly one of the two lists.
C27_OneListWins ==
  \A p \in Procs : \A q \in Procs \ {p} :
    (/\ UpdatedGrades(p)
     /\ UpdatedGrades(q)
     /\ arg[p].id = arg[q].id
     /\ dirty[p] \/ dirty[q]
     /\ arg[p].id \in DOMAIN students)
      => LET cur == GradesOf(grades, arg[p].id)
         IN \/ MatchesList(cur, arg[p].dto.grades)
            \/ MatchesList(cur, arg[q].dto.grades)

\* C28: remove(x) deletes no student whose id differs from x, whatever x
\* is (an id, or a text that is no UUID).
C28_RemoveOnlyById ==
  [][ \A p \in Procs :
        (pc[p] = "remove" /\ pc'[p] = "idle") =>
          \A i \in DOMAIN students \ DOMAIN students' :
            arg[p].term = Uuid(i) ]_vars

\* C29: once a remove of a student has succeeded and an update of the same
\* student that ran concurrently with it has ended, no student row and no
\* grade row of that id is stored.
C29_RemovedStaysRemoved ==
  \A p \in Procs : \A q \in Procs \ {p} :
    (/\ pc[p] = "idle"
     /\ arg[p].op = "remove"
     /\ ret[p].status = "ok"
     /\ pc[q] = "idle"
     /\ arg[q].op = "update"
     /\ arg[q].id = ret[p].id
     /\ dirty[q])
      => /\ ret[p].id \notin DOMAIN students
         /\ GradesOf(grades, ret[p].id) = {}

=============================================================================
